---------------------------- MODULE Spec2Model ----------------------------
(***************************************************************************)
(* Presence accumulation and stamp awarding of the attendance bot          *)
(* (src/app/main.py): the 30-second presence_checker loop with its         *)
(* reminder, the record_stamp_if_needed awarder, the stamps table, the     *)
(* streak statistics of get_stats_for_user, and the add_club command.      *)
(*                                                                         *)
(* Instants are whole seconds.  A python date is its day number in 2025    *)
(* (1 = 2025-01-01); a stored date string "YYYY-MM-DD" is the tuple        *)
(* <<year, month, day>>.                                                   *)
(***************************************************************************)
EXTENDS Integers, Sequences, FiniteSets, TLC

VARIABLES
    now,                  \* the wall clock (JST): day number * DaySeconds + seconds since midnight
    ticked,               \* presence_checker has already run at the instant `now`
    irregular,            \* since midnight an iteration was skipped or the process restarted
    roster,               \* the members of the guild
    voice,                \* member -> the voice channel the member is in, or NoChannel
    club_cache,           \* club name -> ClubConfig                    (main.py:103)
    presence_accumulator, \* (club_id, user_id, date) -> seconds        (main.py:107)
    notified_keys,        \* set of reminder keys                       (main.py:465)
    stamps,               \* the stamps table: (user_id, club_id, date string) -> number of rows (> 0)
    unique,               \* the stamps table rejects a second row for the same key
    notices,              \* award messages sent to the text channel, per stamp key
    reminders,            \* "starts in 5 minutes" messages sent, per reminder key
    last_eval,            \* (club_id, user_id, date) -> the seconds record_stamp_if_needed was called
                          \* with in the last iteration, and how it ended
    actual,               \* (club name, member) -> seconds really spent in the channel inside today's window
    left,                 \* (club name, member) -> the member was outside the club's channel today
    evaluator,            \* process -> its position in a call of record_stamp_if_needed that
                          \* runs concurrently with the other process's
    stats,                \* the result of get_stats_for_user, once it has run
    clubs_table,          \* the clubs table: the set of its rows
    reply,                \* the answer to the last add_club command
    recovered             \* the store has recovered for good: no select or insert fails any more

vars == <<now, ticked, irregular, roster, voice, club_cache, presence_accumulator,
          notified_keys, stamps, unique, notices, reminders, last_eval,
          actual, left, evaluator, stats, clubs_table, reply, recovered>>

-----------------------------------------------------------------------------
(* Bounds of the model *)

\* number of midnights the clock may pass
MaxDays == 1
\* number of days of the calendar the streak statistics are computed over
MaxDates == 5
\* number of rows the clubs table may come to hold
MaxClubs == 3
\* number of reminders of a club and day after which the process is no longer
\* restarted
MaxReminders == 2

-----------------------------------------------------------------------------
(* Calendar: datetime.date, isoformat and strptime *)

DaySeconds == 24 * 60 * 60

DaysInJanuary == 31

\* date.year, date.month, date.day of day number d of 2025 (January and February)
DateMonth(d) == IF d <= DaysInJanuary THEN 1 ELSE 2

DateDay(d) == IF d <= DaysInJanuary THEN d ELSE d - DaysInJanuary

\* date_obj.isoformat() / now.strftime("%Y-%m-%d")
IsoFormat(d) == <<2025, DateMonth(d), DateDay(d)>>

ValueError == 0 - 1

\* datetime.strptime(s, "%Y-%m-%d").date(): the day number, or ValueError
Strptime(s) ==
    IF /\ Len(s) = 3
       /\ s[1] = 2025
       /\ \/ s[2] = 1 /\ s[3] \in 1..DaysInJanuary
          \/ s[2] = 2 /\ s[3] \in 1..28
    THEN (IF s[2] = 1 THEN 0 ELSE DaysInJanuary) + s[3]
    ELSE ValueError

\* the first day of the model: 2025-01-31, so that the first midnight is a month's end
FirstDay == DaysInJanuary

\* now.date()
DateOf(t) == t \div DaySeconds

\* seconds since midnight
TimeOfDay(t) == t % DaySeconds

\* strftime("%H:%M")
FormatHM(tod) == <<tod \div 3600, (tod \div 60) % 60>>

-----------------------------------------------------------------------------
(* Configuration: ClubConfig (main.py:60-97) and the guild *)

NoChannel == "none"

Members == {"m1", "m2", "bot"}

\* member.bot
Bots == {"bot"}

\* the club every behaviour of Spec runs with: 00:05 start, a 2-minute window,
\* 1 minute required, monitoring from 1 minute before the start, no role to
\* mention (the column is NULL)
Morning ==
    [club_id |-> "c1", name |-> "morning", voice_channel_id |-> "vc1",
     start_time |-> [hour |-> 0, minute |-> 5, second |-> 0],
     window_minutes |-> 2, required_minutes |-> 1, monitor_offset_minutes |-> 1,
     mention_role_id |-> "none"]

\* a second club on another channel, same hours, whose window is as long as
\* the required time
Night ==
    [club_id |-> "c2", name |-> "night", voice_channel_id |-> "vc2",
     start_time |-> [hour |-> 0, minute |-> 5, second |-> 0],
     window_minutes |-> 1, required_minutes |-> 1, monitor_offset_minutes |-> 1,
     mention_role_id |-> "role2"]

\* the instants at which the first iteration of the loop may fall, relative to
\* the full half minute
Alignments == {0, 15}

\* the days the clock can reach
Days == FirstDay .. FirstDay + MaxDays

\* ClubConfig.window_timedelta, required_timedelta, monitor_offset_timedelta, in seconds
WindowSeconds(club) == club.window_minutes * 60

RequiredSeconds(club) == club.required_minutes * 60

MonitorOffsetSeconds(club) == club.monitor_offset_minutes * 60

StartSeconds(club) ==
    club.start_time.hour * 3600 + club.start_time.minute * 60 + club.start_time.second

\* get_today_window_range: <<start_dt, end_dt>> of the day of t
WindowRange(club, t) ==
    LET start_dt == DateOf(t) * DaySeconds + StartSeconds(club)
    IN  <<start_dt, start_dt + WindowSeconds(club)>>

\* get_today_monitor_range
MonitorRange(club, t) ==
    LET w == WindowRange(club, t)
    IN  <<w[1] - MonitorOffsetSeconds(club), w[2]>>

-----------------------------------------------------------------------------
(* presence_checker and record_stamp_if_needed *)

\* @tasks.loop(seconds=30)
LoopSeconds == 30

\* presence_accumulator.get(key, 0) + 30
AddSeconds == 30

\* now + timedelta(minutes=5)
ReminderLeadSeconds == 5 * 60

\* a dict without entries
EmptyDict == [k \in {} |-> 0]

\* presence_accumulator.get(key, 0), and the number of rows a select returns
Get(dict, key) == IF key \in DOMAIN dict THEN dict[key] ELSE 0

\* monitor_start <= now <= monitor_end
InMonitor(club, t) == MonitorRange(club, t)[1] <= t /\ t <= MonitorRange(club, t)[2]

\* the time before the window, from monitor_start on, counts too
InWindow_FromMonitor(club, t) == InMonitor(club, t)

\* window_start <= now <= window_end
InWindow(club, t) == WindowRange(club, t)[1] <= t /\ t <= WindowRange(club, t)[2]

\* key_date = window_start.date()
KeyDate(club, t) == DateOf(WindowRange(club, t)[1])

\* a key that leaves the day out
AccKey_NoDate(club_id, m, key_date) == <<club_id, m>>

\* key = (guild.id, club.club_id, member.id, key_date); the bot serves one
\* guild (GUILD_ID), left out of the key
AccKey(club_id, m, key_date) == <<club_id, m, key_date>>

\* the entry is set, not added to
Accumulate_Reset(acc, key) == AddSeconds

\* presence_accumulator[key] = presence_accumulator.get(key, 0) + 30
Accumulate(acc, key) == Get(acc, key) + AddSeconds

\* the threshold taken in minutes
BelowThreshold_Minutes(club, seconds) == seconds < club.required_minutes

\* seconds_in_window < int(club.required_timedelta.total_seconds())
BelowThreshold(club, seconds) == seconds < RequiredSeconds(club)

\* the duplicate check passes a single existing row
AlreadyStamped_OffByOne(rows) == rows > 1

\* the duplicate check is left out
AlreadyStamped_Never(rows) == FALSE

\* if res.data: return
AlreadyStamped(rows) == rows > 0

\* what can go wrong in one call of record_stamp_if_needed: the select raises,
\* the insert raises, the send of the award message raises
Faults == {"none", "query", "insert", "notify"}

\* once the store has recovered, its selects and inserts do not raise
FaultsNow == IF recovered THEN Faults \ {"query", "insert"} ELSE Faults

\* the stamps table rejects the insert of a second row for a (member, club,
\* day) when it enforces the uniqueness of the key
Duplicate(rows, uniq) == uniq /\ rows > 0

\* the insert returns without raising: the store is reachable and accepts the row
InsertAccepted(rows, fault, uniq) == fault # "insert" /\ ~Duplicate(rows, uniq)

\* the exception leaves record_stamp_if_needed and ends the loop
OnException_Propagates(result) == "crashed"

\* try: ... except Exception as e: print(...): whatever raises, the call
\* returns normally, with `result` done
OnException(result) == result

\* how record_stamp_if_needed(club, user_id, date_obj, seconds) ends when the
\* table holds `rows` rows for the key:
\*   "not_yet"     returned at line 219
\*   "already"     returned at line 224
\*   "awarded"     row inserted and award message sent
\*   "unnotified"  row inserted, the send raised, caught at line 244
\*   "error"       select or insert raised, caught at line 244, nothing written
RecordStamp(club, seconds, rows, fault, uniq) ==
    IF BelowThreshold(club, seconds) THEN "not_yet"
    ELSE IF fault = "query" THEN OnException("error")
    ELSE IF AlreadyStamped(rows) THEN "already"
    ELSE IF ~InsertAccepted(rows, fault, uniq) THEN OnException("error")
    ELSE IF fault = "notify" THEN OnException("unnotified")
    ELSE "awarded"

Inserting == {"awarded", "unnotified"}

\* the (club name, member) pairs the loops at lines 481 and 514 reach line 519
\* with and find inside the window
Evaluated(t) ==
    {p \in (DOMAIN club_cache) \X roster :
        LET club == club_cache[p[1]]
        IN  /\ InMonitor(club, t)
            /\ voice[p[2]] = club.voice_channel_id
            /\ p[2] \notin Bots
            /\ InWindow(club, t)}

\* notify_key = f"notif_{club.club_id}_{today_str}"
NotifyKey(club, t) == <<club.club_id, IsoFormat(DateOf(t))>>

\* five_min_later_str == club_time_str and notify_key not in notified_keys,
\* with the text channel found and a mention role configured
ReminderDue(club, t) ==
    /\ FormatHM(TimeOfDay(t + ReminderLeadSeconds))
         = <<club.start_time.hour, club.start_time.minute>>
    /\ NotifyKey(club, t) \notin notified_keys
    /\ club.mention_role_id # "none"

\* the call record_stamp_if_needed(club, member.id, key_date, seconds) of a
\* (club name, member) pair, named by <<club_id, user_id, date>>
CallOf(p, t) == <<club_cache[p[1]].club_id, p[2], KeyDate(club_cache[p[1]], t)>>

\* the row of the stamps table a call selects and inserts
StampKeyOf(c) == <<c[2], c[1], IsoFormat(c[3])>>

\* the club with a club_id
ClubOf(c) == club_cache[CHOOSE n \in DOMAIN club_cache : club_cache[n].club_id = c[1]]

\* the dict is rebuilt from the members seen
Accumulated_OnlySeen(acc, seen) == [k \in seen |-> Accumulate(acc, k)]

\* presence_accumulator after the loops of one iteration that sees the keys `seen`
Accumulated(acc, seen) ==
    [k \in DOMAIN acc \cup seen |-> IF k \in seen THEN Accumulate(acc, k) ELSE acc[k]]

\* a table of counters with one more for each key in `keys`
Added(table, keys) ==
    [k \in DOMAIN table \cup keys |-> Get(table, k) + IF k \in keys THEN 1 ELSE 0]

\* one iteration of presence_checker at the instant `now`
Tick ==
    /\ ~ticked
    /\ ticked' = TRUE
    /\ LET calls == {CallOf(p, now) : p \in Evaluated(now)}
           due   == {n \in DOMAIN club_cache : ReminderDue(club_cache[n], now)}
       IN  \E faults \in [calls -> FaultsNow], unsent \in SUBSET due :
             LET acc  == Accumulated(presence_accumulator,
                                     {AccKey(c[1], c[2], c[3]) : c \in calls})
                 out  == [c \in calls |->
                            LET seconds == acc[AccKey(c[1], c[2], c[3])]
                            IN  [seconds |-> seconds,
                                 result  |-> RecordStamp(ClubOf(c), seconds,
                                                         Get(stamps, StampKeyOf(c)),
                                                         faults[c], unique)]]
                 sent == {NotifyKey(club_cache[n], now) : n \in due \ unsent}
             IN  /\ presence_accumulator' = acc
                 /\ stamps' = Added(stamps, {StampKeyOf(c) : c \in {d \in calls : out[d].result \in Inserting}})
                 /\ notices' = Added(notices, {StampKeyOf(c) : c \in {d \in calls : out[d].result = "awarded"}})
                 /\ last_eval' = out
                 /\ notified_keys' = notified_keys \cup sent
                 /\ reminders' = Added(reminders, sent)
    /\ UNCHANGED <<now, irregular, roster, voice, club_cache, unique,
                   actual, left, evaluator, stats,
                   clubs_table, reply, recovered>>

-----------------------------------------------------------------------------
(* The environment: the voice platform, the clock, the process *)

Max(a, b) == IF a >= b THEN a ELSE b

Min(a, b) == IF a <= b THEN a ELSE b

\* the seconds of [from, to] that lie inside the club's window
SecondsInWindow(club, from, to) ==
    LET w == WindowRange(club, from)
    IN  Max(0, Min(to, w[2]) - Max(from, w[1]))

\* the voice channels the clubs watch
Channels == {club_cache[n].voice_channel_id : n \in DOMAIN club_cache}

\* the club has something to do at an iteration at t: t is in its monitor range
\* (or the window closed less than one interval ago), or t is in the minute
\* in which its reminder is due
Busy(club, t) ==
    \/ MonitorRange(club, t)[1] <= t /\ t - LoopSeconds < MonitorRange(club, t)[2]
    \/ /\ club.mention_role_id # "none"
       /\ FormatHM(TimeOfDay(t + ReminderLeadSeconds))
            = <<club.start_time.hour, club.start_time.minute>>

BusyAt(t) == \E n \in DOMAIN club_cache : Busy(club_cache[n], t)

\* the first instant >= t that the loop, running every LoopSeconds from `now`, hits
OnGrid(t) == t + ((now - t) % LoopSeconds)

\* the instants at which a monitor range or a reminder minute of a club begins,
\* from yesterday to tomorrow
Beginnings ==
    UNION {LET start == d * DaySeconds + StartSeconds(club_cache[n]) - club_cache[n].start_time.second
           IN  {d * DaySeconds + StartSeconds(club_cache[n]) - MonitorOffsetSeconds(club_cache[n])}
               \cup (IF club_cache[n].mention_role_id # "none"
                     THEN {start - ReminderLeadSeconds} ELSE {})
           : n \in DOMAIN club_cache, d \in DateOf(now) - 1 .. DateOf(now) + 1}

\* the next instant after `now` at which an iteration finds something to do
NextBusy ==
    LET later == {t \in {OnGrid(b) : b \in Beginnings} : t > now}
    IN  CHOOSE t \in later : \A u \in later : t <= u

\* a member joins, leaves or changes the voice channel; on_voice_state_update
\* returns at once (main.py:463).  With `measured`, leaving a club's channel is
\* recorded
Move(m, after, measured) ==
    /\ m \in roster
    /\ after \in Channels \cup {NoChannel}
    /\ after # voice[m]
    /\ voice' = [voice EXCEPT ![m] = after]
    /\ IF measured
       THEN left' = [p \in DOMAIN left |->
                       left[p] \/ (p[2] = m /\ voice[m] = club_cache[p[1]].voice_channel_id)]
       ELSE UNCHANGED left
    /\ UNCHANGED <<now, ticked, irregular, roster, club_cache, presence_accumulator,
                   notified_keys, stamps, unique, notices, reminders, last_eval,
                   actual, evaluator, stats,
                   clubs_table, reply, recovered>>

on_voice_state_update(m, after) == Move(m, after, FALSE)

MoveMeasured(m, after) == Move(m, after, TRUE)

\* LoopSeconds pass; an iteration that did not run at `now` is skipped.  With
\* `measured`, the time each member really spends in the channel inside the
\* window is measured, and whether an iteration was skipped is recorded
Elapse(measured) ==
    /\ BusyAt(now + LoopSeconds)
    /\ now' = now + LoopSeconds
    /\ ticked' = FALSE
    /\ IF measured
       THEN /\ irregular' = (irregular \/ ~ticked)
            /\ actual' = [p \in DOMAIN actual |->
                            actual[p]
                            + IF voice[p[2]] = club_cache[p[1]].voice_channel_id
                              THEN SecondsInWindow(club_cache[p[1]], now, now + LoopSeconds)
                              ELSE 0]
            /\ left' = [p \in DOMAIN left |->
                          left[p] \/ voice[p[2]] # club_cache[p[1]].voice_channel_id]
       ELSE UNCHANGED <<irregular, actual, left>>
    /\ UNCHANGED <<roster, voice, club_cache, presence_accumulator, notified_keys,
                   stamps, unique, notices, reminders, last_eval,
                   evaluator, stats,
                   clubs_table, reply, recovered>>

Pass == Elapse(FALSE)

PassMeasured == Elapse(TRUE)

\* the time until the next monitor range or reminder minute passes: the
\* iterations in between find no club inside its monitor range and no reminder
\* due, and change nothing
Idle ==
    /\ ~BusyAt(now + LoopSeconds)
    /\ DateOf(NextBusy) <= FirstDay + MaxDays
    /\ now' = NextBusy
    /\ ticked' = FALSE
    /\ irregular' = IF DateOf(now') = DateOf(now) THEN irregular ELSE FALSE
    /\ actual' = [p \in DOMAIN actual |->
                    IF DateOf(now') = DateOf(now) THEN actual[p] ELSE 0]
    /\ left' = [p \in DOMAIN left |->
                  IF DateOf(now') = DateOf(now) THEN left[p] ELSE FALSE]
    /\ UNCHANGED <<roster, voice, club_cache, presence_accumulator, notified_keys,
                   stamps, unique, notices, reminders, last_eval,
                   evaluator, stats,
                   clubs_table, reply, recovered>>

\* the process is restarted: the module-level dicts are empty again, on_ready
\* reloads the clubs and starts the loop, whose first iteration runs at once
Restart ==
    /\ presence_accumulator' = EmptyDict
    /\ notified_keys' = {}
    /\ last_eval' = EmptyDict
    /\ ticked' = FALSE
    /\ UNCHANGED <<now, irregular, roster, voice, club_cache, stamps, unique, notices,
                   reminders, actual, left, evaluator, stats,
                   clubs_table, reply, recovered>>

NoEvaluator == [p \in {} |-> "idle"]

\* the time of day of the first monitor range or reminder minute
DayStart(clubs) ==
    LET begins == {StartSeconds(c) - MonitorOffsetSeconds(c) : c \in clubs}
                  \cup {StartSeconds(c) - c.start_time.second - ReminderLeadSeconds :
                           c \in {k \in clubs : k.mention_role_id # "none"}}
    IN  CHOOSE b \in begins : \A c \in begins : b <= c

NoStats == [done |-> FALSE, value |-> <<0, 0, 0>>, exc |-> "none"]

\* no add_club command was given yet
NoReply == [caller |-> "none", name |-> "none", fault |-> "none", text |-> "none"]

InitWith(members, clubs, day) ==
    /\ now \in {day * DaySeconds + DayStart(clubs) + a : a \in Alignments}
    /\ ticked = FALSE
    /\ irregular = FALSE
    /\ roster = members
    /\ voice = [m \in members |-> NoChannel]
    /\ club_cache = [n \in {c.name : c \in clubs} |-> CHOOSE c \in clubs : c.name = n]
    /\ presence_accumulator = EmptyDict
    /\ notified_keys = {}
    /\ stamps = EmptyDict
    /\ unique \in BOOLEAN
    /\ notices = EmptyDict
    /\ reminders = EmptyDict
    /\ last_eval = EmptyDict
    /\ actual = [p \in {c.name : c \in clubs} \X members |-> 0]
    /\ left = [p \in {c.name : c \in clubs} \X members |-> FALSE]
    /\ evaluator = NoEvaluator
    /\ stats = NoStats
    /\ clubs_table = clubs
    /\ reply = NoReply
    /\ recovered = FALSE

Init == InitWith({"m1"}, {Morning}, FirstDay)

Next ==
    \/ Tick
    \/ Pass
    \/ Idle
    \/ Restart
    \/ \E m \in Members, ch \in {"vc1", "vc2", NoChannel} : on_voice_state_update(m, ch)

Spec == Init /\ [][Next]_vars

\* one day of one process running without restart, with the real time in the
\* channel measured
InitMeasured == InitWith({"m1"}, {Morning}, FirstDay + MaxDays)

NextMeasured ==
    \/ Tick
    \/ PassMeasured
    \/ \E m \in Members, ch \in {"vc1", "vc2", NoChannel} : MoveMeasured(m, ch)

SpecMeasured == InitMeasured /\ [][NextMeasured]_vars

-----------------------------------------------------------------------------
(* Two processes in record_stamp_if_needed for the same (member, club, day):  *)
(* the call of main.py:217-245 step by step, each request to the store and   *)
(* to the chat platform being one step                                       *)

Processes == {"old", "new"}

\* the call both processes make
RaceCall == <<Morning.club_id, "m1", DateOf(now)>>

\* both processes are about to call inside the window, each with the seconds of
\* its own accumulator; the stamps table enforces one row per (member, club, day)
InitRace ==
    /\ now \in {FirstDay * DaySeconds + StartSeconds(Morning) + a : a \in Alignments}
    /\ ticked = FALSE
    /\ irregular = FALSE
    /\ roster = {"m1"}
    /\ voice = [m \in {"m1"} |-> Morning.voice_channel_id]
    /\ club_cache = [n \in {Morning.name} |-> Morning]
    /\ presence_accumulator = EmptyDict
    /\ notified_keys = {}
    /\ stamps = EmptyDict
    /\ unique = TRUE
    /\ notices = EmptyDict
    /\ reminders = EmptyDict
    /\ last_eval = EmptyDict
    /\ actual = [p \in {Morning.name} \X {"m1"} |-> 0]
    /\ left = [p \in {Morning.name} \X {"m1"} |-> FALSE]
    /\ evaluator \in [Processes ->
                        {[pc |-> "call", seconds |-> n * AddSeconds, result |-> "none", exc |-> "none"] :
                           n \in 1 .. Morning.window_minutes * 2 + 1}]
    /\ stats = NoStats
    /\ clubs_table = {Morning}
    /\ reply = NoReply
    /\ recovered = FALSE

RaceUnchanged ==
    UNCHANGED <<now, ticked, irregular, roster, voice, club_cache, presence_accumulator,
                notified_keys, unique, reminders, last_eval, actual, left, stats,
                   clubs_table, reply, recovered>>

\* the call ends
Returned(e, result, exc) ==
    [evaluator EXCEPT ![e].pc = "done", ![e].result = result, ![e].exc = exc]

\* if seconds_in_window < required: return
EvalCall(e) ==
    /\ evaluator[e].pc = "call"
    /\ evaluator' = IF BelowThreshold(Morning, evaluator[e].seconds)
                    THEN Returned(e, "not_yet", "none")
                    ELSE [evaluator EXCEPT ![e].pc = "select"]
    /\ UNCHANGED <<stamps, notices>>
    /\ RaceUnchanged

\* res = supabase.table("stamps").select(...).execute(); if res.data: return
EvalSelect(e) ==
    /\ evaluator[e].pc = "select"
    /\ \E fault \in {"none", "query"} :
          evaluator' = IF fault = "query" THEN Returned(e, OnException("error"), "unavailable")
                       ELSE IF AlreadyStamped(Get(stamps, StampKeyOf(RaceCall)))
                            THEN Returned(e, "already", "none")
                            ELSE [evaluator EXCEPT ![e].pc = "insert"]
    /\ UNCHANGED <<stamps, notices>>
    /\ RaceUnchanged

\* supabase.table("stamps").insert({...}).execute()
EvalInsert(e) ==
    /\ evaluator[e].pc = "insert"
    /\ \E fault \in {"none", "insert"} :
          LET rows == Get(stamps, StampKeyOf(RaceCall))
          IN  IF InsertAccepted(rows, fault, unique)
              THEN /\ stamps' = Added(stamps, {StampKeyOf(RaceCall)})
                   /\ evaluator' = [evaluator EXCEPT ![e].pc = "send"]
              ELSE /\ stamps' = stamps
                   /\ evaluator' = Returned(e, OnException("error"),
                                            IF Duplicate(rows, unique) THEN "duplicate"
                                            ELSE "unavailable")
    /\ UNCHANGED notices
    /\ RaceUnchanged

\* await target_channel.send(...)
EvalSend(e) ==
    /\ evaluator[e].pc = "send"
    /\ \E fault \in {"none", "notify"} :
          IF fault = "notify"
          THEN /\ notices' = notices
               /\ evaluator' = Returned(e, OnException("unnotified"), "unavailable")
          ELSE /\ notices' = Added(notices, {StampKeyOf(RaceCall)})
               /\ evaluator' = Returned(e, "awarded", "none")
    /\ UNCHANGED stamps
    /\ RaceUnchanged

NextRace ==
    \E e \in Processes : EvalCall(e) \/ EvalSelect(e) \/ EvalInsert(e) \/ EvalSend(e)

SpecRace == InitRace /\ [][NextRace]_vars

-----------------------------------------------------------------------------
(* get_stats_for_user (main.py:248-289) *)

\* the days the stamps table has rows for when the statistics are asked for:
\* the last MaxDates days up to the day after FirstDay (2025-02-01)
StatDays == FirstDay + 2 - MaxDates .. FirstDay + 1

\* the elements of a set of day numbers in ascending order
RECURSIVE SortedDates(_)
SortedDates(S) ==
    IF S = {} THEN <<>>
    ELSE LET least == CHOOSE d \in S : \A e \in S : d <= e
         IN  <<least>> \o SortedDates(S \ {least})

\* res.data of select("date").eq(user_id).eq(guild_id).eq(club_id).order("date"):
\* the date strings of the rows, in ascending order, one per row
RECURSIVE QueryDates(_, _, _)
QueryDates(table, user_id, club_id) ==
    LET keys == {k \in DOMAIN table : k[1] = user_id /\ k[2] = club_id}
    IN  IF keys = {} THEN <<>>
        ELSE LET first == CHOOSE k \in keys :
                            \A j \in keys : Strptime(k[3]) <= Strptime(j[3])
                 rest  == [k \in DOMAIN table \ {first} |-> table[k]]
             IN  [i \in 1 .. table[first] |-> first[3]]
                 \o QueryDates(rest, user_id, club_id)

\* max_streak = max(max_streak, temp_streak) is left out after the loop
FinalMax_Forgotten(max_streak, temp_streak) == max_streak

\* max_streak = max(max_streak, temp_streak) after the loop (line 275)
FinalMax(max_streak, temp_streak) == Max(max_streak, temp_streak)

\* the loop of lines 269-274 from index i on (1-based), then line 275
RECURSIVE MaxStreakLoop(_, _, _, _)
MaxStreakLoop(dates, i, temp_streak, max_streak) ==
    IF i > Len(dates) THEN FinalMax(max_streak, temp_streak)
    ELSE IF dates[i] = dates[i - 1] + 1
         THEN MaxStreakLoop(dates, i + 1, temp_streak + 1, max_streak)
         ELSE MaxStreakLoop(dates, i + 1, 1, Max(max_streak, temp_streak))

\* the loop of lines 281-285 from index i down (1-based)
RECURSIVE CurrentStreakLoop(_, _, _)
CurrentStreakLoop(dates, i, current_streak) ==
    IF i < 2 THEN current_streak
    ELSE IF dates[i] = dates[i - 1] + 1
         THEN CurrentStreakLoop(dates, i - 1, current_streak + 1)
         ELSE current_streak

\* only a stamp of today keeps the streak current
IsCurrent_TodayOnly(last, today) == last = today

\* dates[-1] == today or dates[-1] == today - timedelta(days=1)   (line 279)
IsCurrent(last, today) == last = today \/ last = today - 1

\* get_stats_for_user on the rows `data`, today being the day `today`:
\* <<total, current_streak, max_streak>>
StatsOf(data, today) ==
    LET dates == SortedDates({Strptime(data[i]) : i \in 1 .. Len(data)})
    IN  IF dates = <<>> THEN <<0, 0, 0>>
        ELSE <<Len(dates),
               IF IsCurrent(dates[Len(dates)], today)
               THEN CurrentStreakLoop(dates, Len(dates), 1)
               ELSE 0,
               MaxStreakLoop(dates, 2, 1, 0)>>

\* datetime.strptime raises for a row of res.data: the list comprehension of
\* line 259 stands in no try, nor does the call at line 654
Unparsable(data) == \E i \in 1 .. Len(data) : Strptime(data[i]) = ValueError

\* the card command asks for the statistics of a member in a club: the
\* function returns the three numbers, or ValueError leaves it
get_stats_for_user(club, user_id) ==
    /\ ~stats.done
    /\ LET data == QueryDates(stamps, user_id, club.club_id)
       IN  stats' = IF Unparsable(data)
                    THEN [done |-> TRUE, value |-> <<0, 0, 0>>, exc |-> "ValueError"]
                    ELSE [done |-> TRUE, value |-> StatsOf(data, DateOf(now)),
                          exc |-> "none"]
    /\ UNCHANGED <<now, ticked, irregular, roster, voice, club_cache, presence_accumulator,
                   notified_keys, stamps, unique, notices, reminders, last_eval,
                   actual, left, evaluator,
                   clubs_table, reply, recovered>>

\* the table holds any rows of member m1 in the club for the days StatDays (two
\* rows for a day only where the table does not enforce uniqueness) and a row
\* for each of the date strings `others`, and the statistics are asked for on
\* one of the three days from FirstDay + 1 on
InitStatsWith(others) ==
    /\ now \in {d * DaySeconds : d \in FirstDay + 1 .. FirstDay + 3}
    /\ ticked = FALSE
    /\ irregular = FALSE
    /\ roster = {"m1"}
    /\ voice = [m \in {"m1"} |-> NoChannel]
    /\ club_cache = [n \in {Morning.name} |-> Morning]
    /\ presence_accumulator = EmptyDict
    /\ notified_keys = {}
    /\ unique \in BOOLEAN
    /\ \E days \in SUBSET StatDays :
          stamps \in [{<<"m1", Morning.club_id, s>> : s \in {IsoFormat(d) : d \in days} \cup others}
                        -> 1 .. (IF unique THEN 1 ELSE 2)]
    /\ notices = EmptyDict
    /\ reminders = EmptyDict
    /\ last_eval = EmptyDict
    /\ actual = [p \in {Morning.name} \X {"m1"} |-> 0]
    /\ left = [p \in {Morning.name} \X {"m1"} |-> FALSE]
    /\ evaluator = NoEvaluator
    /\ stats = NoStats
    /\ clubs_table = {Morning}
    /\ reply = NoReply
    /\ recovered = FALSE

\* every row was written by record_stamp_if_needed, with date_obj.isoformat()
InitStats == InitStatsWith({})

NextStats == get_stats_for_user(Morning, "m1")

SpecStats == InitStats /\ [][NextStats]_vars

\* a date string that is no date: February 30
Malformed == <<2025, 2, 30>>

\* one row of the member has a date that strptime does not parse
InitMalformed == InitStatsWith({Malformed})

SpecMalformed == InitMalformed /\ [][NextStats]_vars

\* the days of the rows of member m1 in the club
StampDays == {Strptime(k[3]) : k \in DOMAIN stamps}

\* the length of the longest run of consecutive days in a set of days
LongestRun(S) ==
    LET runs == {0} \cup {n \in 1 .. Cardinality(S) :
                             \E d \in S : \A i \in 0 .. n - 1 : d + i \in S}
    IN  CHOOSE n \in runs : \A m \in runs : m <= n

\* C10: get_stats_for_user returns the number of distinct stamp days as total
\* and the length of the longest run of consecutive calendar days as longest
\* streak, and (0, 0, 0) when the member has no stamp.
C10_LongestStreakAndTotal ==
    stats.done =>
        /\ stats.value[1] = Cardinality(StampDays)
        /\ stats.value[3] = LongestRun(StampDays)
        /\ StampDays = {} => stats.value = <<0, 0, 0>>

\* two runs, the longer one last and across the end of January, and a day
\* stored twice
C10_Witness ==
    /\ stats.done
    /\ stats.value[3] = 3
    /\ stats.value[1] = 4
    /\ \E k \in DOMAIN stamps : stamps[k] = 2
    /\ FirstDay + 1 \in StampDays

\* the most recent day of a non-empty set of days
LatestDay(S) == CHOOSE d \in S : \A e \in S : e <= d

\* the length of the run of consecutive days of S that ends at day d
RunEndingAt(S, d) ==
    LET runs == {n \in 0 .. Cardinality(S) : \A i \in 0 .. n - 1 : d - i \in S}
    IN  CHOOSE n \in runs : \A m \in runs : m <= n

\* C11: get_stats_for_user returns current streak 0 when the member has no
\* stamp or the most recent stamp day is before yesterday, and otherwise (the
\* most recent stamp day is today or yesterday) the length of the run of
\* consecutive days that ends at the most recent stamp day.
C11_CurrentStreak ==
    stats.done =>
        stats.value[2] =
            IF StampDays = {} \/ LatestDay(StampDays) < DateOf(now) - 1 THEN 0
            ELSE RunEndingAt(StampDays, LatestDay(StampDays))

\* asked on 2025-02-02 with stamps on January 30 and 31 and February 1, and
\* none on the day itself: the run ends yesterday and counts
C11_Witness ==
    /\ stats.done
    /\ DateOf(now) = FirstDay + 2
    /\ LatestDay(StampDays \cup {0}) = FirstDay + 1
    /\ {FirstDay - 1, FirstDay} \subseteq StampDays
    /\ FirstDay - 2 \notin StampDays
    /\ stats.value[2] = 3

\* the days of the rows whose date is well-formed
WellFormedDays == StampDays \ {ValueError}

\* C18: with one row of unparsable date among the member's rows,
\* get_stats_for_user does not fail and returns total, current streak and
\* longest streak of the rows with well-formed dates.
C18_MalformedRowSkipped ==
    stats.done =>
        /\ stats.exc = "none"
        /\ stats.value[1] = Cardinality(WellFormedDays)
        /\ stats.value[2] =
              IF WellFormedDays = {} \/ LatestDay(WellFormedDays) < DateOf(now) - 1 THEN 0
              ELSE RunEndingAt(WellFormedDays, LatestDay(WellFormedDays))
        /\ stats.value[3] = LongestRun(WellFormedDays)

-----------------------------------------------------------------------------
(* add_club and add_club_to_db (main.py:151-215, 539-580) *)

\* the ids the store gives to the rows of the clubs table, in the order of
\* their insertion
ClubIds == <<"c1", "c2", "c3", "c4", "c5">>

\* the defaults of add_club_to_db, which add_club does not override
DefaultWindowMinutes == 15

DefaultRequiredMinutes == 6

DefaultMonitorOffsetMinutes == 20

\* res.data of select("*").eq("name", name).eq("guild_id", guild_id) is not empty
NameTaken(name) == \E r \in clubs_table : r.name = name

\* the clubs table rejects a second row with the name of an existing one when
\* it enforces the uniqueness of the name
DuplicateName(taken, uniq) == uniq /\ taken

\* what the try of lines 164-167 raises: the select fails, or the name is taken
\* and line 167 raises ValueError
CheckRaises(taken, fault) ==
    IF fault = "query" THEN "unavailable"
    ELSE IF taken THEN "ValueError"
    ELSE "none"

\* except Exception as e: print(f"Check error: {e}") (lines 168-169): whatever
\* the check raised, add_club_to_db goes on to the insert
AfterCheck(exc) == "none"

\* the row add_club_to_db inserts and the store returns with its id
NewRow(name, voice_channel_id, start_time, mention_role_id) ==
    [club_id |-> ClubIds[Cardinality(clubs_table) + 1], name |-> name,
     voice_channel_id |-> voice_channel_id, start_time |-> start_time,
     window_minutes |-> DefaultWindowMinutes,
     required_minutes |-> DefaultRequiredMinutes,
     monitor_offset_minutes |-> DefaultMonitorOffsetMinutes,
     mention_role_id |-> mention_role_id]

\* how add_club_to_db ends: "ValueError" raised by the check, "RuntimeError"
\* raised at line 195 when the insert fails, or "none" when it returns the
\* ClubConfig
AddClubToDb(name, fault) ==
    LET checked == AfterCheck(CheckRaises(NameTaken(name), fault))
    IN  IF checked # "none" THEN checked
        ELSE IF fault = "insert" \/ DuplicateName(NameTaken(name), unique)
             THEN "RuntimeError"
             ELSE "none"

\* the message add_club sends for the way add_club_to_db ended (lines 568-582)
ReplyText(raised) ==
    IF raised = "ValueError" THEN "duplicate_name"
    ELSE IF raised = "RuntimeError" THEN "error"
    ELSE "registered"

\* the command /add_club
add_club(caller, name, voice_channel, start_time, mention_role) ==
    /\ Cardinality(clubs_table) < MaxClubs
    /\ \E fault \in {"none", "query", "insert"} :
         LET raised == AddClubToDb(name, fault)
             row    == NewRow(name, voice_channel, start_time, mention_role)
         IN  IF caller # "admin"
             THEN /\ reply' = [caller |-> caller, name |-> name, fault |-> "none",
                               text |-> "admins_only"]
                  /\ UNCHANGED <<clubs_table, club_cache>>
             ELSE /\ reply' = [caller |-> caller, name |-> name, fault |-> fault,
                               text |-> ReplyText(raised)]
                  /\ IF raised = "none"
                     THEN /\ clubs_table' = clubs_table \cup {row}
                          /\ club_cache' = [n \in DOMAIN club_cache \cup {name} |->
                                              IF n = name THEN row ELSE club_cache[n]]
                     ELSE UNCHANGED <<clubs_table, club_cache>>
    /\ UNCHANGED <<now, ticked, irregular, roster, voice, presence_accumulator,
                   notified_keys, stamps, unique, notices, reminders, last_eval,
                   actual, left, evaluator, stats, recovered>>

\* the guild has the club Morning; the clubs table may or may not enforce the
\* uniqueness of the name
InitAdmin ==
    /\ InitWith({"m1"}, {Morning}, FirstDay)
    /\ now = FirstDay * DaySeconds + DayStart({Morning})

NextAdmin ==
    \E caller \in {"admin", "member"}, name \in {Morning.name, Night.name},
       voice_channel \in {"vc1", "vc2"}, mention_role \in {"role1", "role2"} :
        add_club(caller, name, voice_channel, Morning.start_time, mention_role)

SpecAdmin == InitAdmin /\ [][NextAdmin]_vars

\* C12: an add_club command of an administrator for a name that is already
\* registered, with the store answering, is answered with the duplicate-name
\* error and changes neither the clubs table nor club_cache.
C12_DuplicateNameRejected ==
    [][(/\ reply'.caller = "admin"
        /\ reply'.fault = "none"
        /\ NameTaken(reply'.name))
       => /\ reply'.text = "duplicate_name"
          /\ clubs_table' = clubs_table
          /\ club_cache' = club_cache]_vars

-----------------------------------------------------------------------------
(* A day on which the store fails for a while and then recovers *)

\* the store comes back and stays available
Recover ==
    /\ ~recovered
    /\ recovered' = TRUE
    /\ UNCHANGED <<now, ticked, irregular, roster, voice, club_cache, presence_accumulator,
                   notified_keys, stamps, unique, notices, reminders, last_eval,
                   actual, left, evaluator, stats, clubs_table, reply>>

\* the next iteration comes LoopSeconds after the one that has run
PassTicked == ticked /\ Pass

InitRetry == InitWith({"m1"}, {Morning}, FirstDay + MaxDays)

NextRetry ==
    \/ Tick
    \/ PassTicked
    \/ Recover
    \/ \E m \in Members, ch \in {"vc1", "vc2", NoChannel} : on_voice_state_update(m, ch)

\* the loop runs every LoopSeconds without skipping an iteration, and the store
\* recovers at some time
SpecRetry ==
    /\ InitRetry
    /\ [][NextRetry]_vars
    /\ WF_vars(Tick)
    /\ WF_vars(PassTicked)
    /\ WF_vars(Recover)

\* C13: once the accumulated seconds of a (member, club, day) have reached the
\* required seconds, and the store recovers at some time, the stamp of that
\* (member, club, day) is eventually in the table.
C13_EventuallyStamped ==
    \A d \in Days :
        (Get(presence_accumulator, AccKey(Morning.club_id, "m1", d)) >= RequiredSeconds(Morning))
        ~> (Get(stamps, StampKeyOf(<<Morning.club_id, "m1", d>>)) >= 1)

-----------------------------------------------------------------------------
(* Two members and two clubs on one day *)

\* the process starts half a minute after the windows of both clubs opened,
\* with the members anywhere; the stamps table enforces one row per (member,
\* club, day)
InitPair ==
    /\ now = (FirstDay + MaxDays) * DaySeconds + StartSeconds(Morning) + LoopSeconds
    /\ ticked = FALSE
    /\ irregular = FALSE
    /\ roster = {"m1", "m2"}
    /\ voice \in [{"m1", "m2"} -> {"vc1", "vc2", NoChannel}]
    /\ club_cache = [n \in {Morning.name, Night.name} |->
                        IF n = Morning.name THEN Morning ELSE Night]
    /\ presence_accumulator = EmptyDict
    /\ notified_keys = {}
    /\ stamps = EmptyDict
    /\ unique = TRUE
    /\ notices = EmptyDict
    /\ reminders = EmptyDict
    /\ last_eval = EmptyDict
    /\ actual = [p \in {Morning.name, Night.name} \X {"m1", "m2"} |-> 0]
    /\ left = [p \in {Morning.name, Night.name} \X {"m1", "m2"} |-> FALSE]
    /\ evaluator = NoEvaluator
    /\ stats = NoStats
    /\ clubs_table = {Morning, Night}
    /\ reply = NoReply
    /\ recovered = FALSE

NextPair ==
    \/ Tick
    \/ PassTicked
    \/ \E m \in Members, ch \in {"vc1", "vc2", NoChannel} : on_voice_state_update(m, ch)

SpecPair == InitPair /\ [][NextPair]_vars

\* the ways a call of record_stamp_if_needed returns to presence_checker
Returns == {"not_yet", "already", "awarded", "unnotified", "error"}

\* C17: in every iteration, every member who is no bot and is in the channel of
\* a club inside its window is accumulated and evaluated, and the call returns
\* to the loop, whatever fails in the calls for the other members and clubs of
\* that iteration; a call whose award message fails has inserted its row, which
\* stays.
C17_FailureDoesNotAbortTick ==
    [][(~ticked /\ ticked') =>
          /\ \A n \in DOMAIN club_cache, m \in roster \ Bots :
                LET club == club_cache[n]
                    c    == <<club.club_id, m, DateOf(now)>>
                    key  == AccKey(c[1], c[2], c[3])
                IN  (/\ voice[m] = club.voice_channel_id
                     /\ WindowRange(club, now)[1] <= now
                     /\ now <= WindowRange(club, now)[2])
                    => /\ Get(presence_accumulator', key)
                            = Get(presence_accumulator, key) + AddSeconds
                       /\ c \in DOMAIN last_eval'
                       /\ last_eval'[c].seconds = Get(presence_accumulator', key)
                       /\ last_eval'[c].result \in Returns
          /\ \A c \in DOMAIN last_eval' :
                last_eval'[c].result = "unnotified"
                => /\ Get(stamps', StampKeyOf(c)) = Get(stamps, StampKeyOf(c)) + 1
                   /\ Get(notices', StampKeyOf(c)) = Get(notices, StampKeyOf(c))]_vars

\* in one iteration the store failed in the call for one member, and the call
\* for the other member, in the other club's channel, inserted the row although
\* its award message failed
C17_Witness ==
    \E c, d \in DOMAIN last_eval :
        /\ c[1] # d[1]
        /\ c[2] # d[2]
        /\ last_eval[c].result = "error"
        /\ last_eval[d].result = "unnotified"
        /\ Get(stamps, StampKeyOf(c)) = 0
        /\ Get(stamps, StampKeyOf(d)) = 1
        /\ Get(notices, StampKeyOf(d)) = 0

-----------------------------------------------------------------------------
(* The reminder five minutes before the start *)

\* the process is restarted, as long as fewer than MaxReminders reminders of a
\* club and day have been sent
RestartReminding ==
    /\ \A k \in DOMAIN reminders : reminders[k] < MaxReminders
    /\ Restart

\* the guild has the club Night, whose role is mentioned in the reminder; nobody
\* joins a voice channel
InitReminder == InitWith({}, {Night}, FirstDay)

NextReminder ==
    \/ Tick
    \/ Pass
    \/ Idle
    \/ RestartReminding

SpecReminder == InitReminder /\ [][NextReminder]_vars

\* Within one run of the process the reminder of a club and day is sent at
\* most once: a process whose notified_keys holds the key does not send again,
\* and the key is added exactly by the iteration whose send succeeded, so that
\* an iteration whose send failed leaves the reminder due for the next one.
OncePerProcessRun ==
    [][\A k \in DOMAIN reminders' \cup notified_keys' :
          /\ k \in notified_keys => Get(reminders', k) = Get(reminders, k)
          /\ Get(reminders', k) > Get(reminders, k)
             => (k \in notified_keys' /\ Get(reminders', k) = Get(reminders, k) + 1)
          /\ (k \in notified_keys' /\ k \notin notified_keys)
             => Get(reminders', k) = Get(reminders, k) + 1]_vars

\* C19: at most one reminder is sent per club and calendar day, whatever
\* happens to the process.
C19_AtMostOncePerDay == \A k \in DOMAIN reminders : reminders[k] <= 1

-----------------------------------------------------------------------------
(* The stamp is awarded once *)

\* C1: the stamps table never holds more than one row for a (member, club,
\* day), and after every call of record_stamp_if_needed with the required
\* seconds reached that the store answered (no select or insert raised) it
\* holds exactly one, however often the call is repeated.
C1_ExactlyOneStamp ==
    /\ \A k \in DOMAIN stamps : stamps[k] = 1
    /\ \A c \in DOMAIN last_eval :
          (/\ last_eval[c].seconds >= RequiredSeconds(ClubOf(c))
           /\ last_eval[c].result # "error")
          => Get(stamps, StampKeyOf(c)) = 1

\* the call is repeated at least twice after the threshold was crossed
C1_Witness ==
    \E c \in DOMAIN last_eval :
        /\ last_eval[c].result = "already"
        /\ last_eval[c].seconds >= RequiredSeconds(ClubOf(c)) + 2 * AddSeconds
        /\ Get(stamps, StampKeyOf(c)) = 1

\* C3: once the table holds the stamp of a (member, club, day), no step adds a
\* row or sends an award message for it, also not an iteration of a restarted
\* process whose fresh accumulator reaches the required seconds again: that call
\* ends at the duplicate check (or at a failing select).
C3_NoSecondStampAfterRestart ==
    [][\A k \in DOMAIN stamps :
          /\ Get(stamps', k) = stamps[k]
          /\ Get(notices', k) = Get(notices, k)
          /\ (~ticked /\ ticked') =>
                \A c \in DOMAIN last_eval' :
                    (StampKeyOf(c) = k /\ last_eval'[c].seconds >= RequiredSeconds(ClubOf(c)))
                    => last_eval'[c].result \in {"already", "error"}]_vars

\* the accumulator of a restarted process reaches the required seconds while
\* the stamp awarded before the restart is in the table
C3_Witness ==
    \E c \in DOMAIN last_eval :
        /\ last_eval[c].result = "already"
        /\ last_eval[c].seconds = RequiredSeconds(ClubOf(c))
        /\ Get(stamps, StampKeyOf(c)) = 1
        /\ Get(notices, StampKeyOf(c)) = 1

\* C4: a row is inserted or an award message sent only by a call of
\* record_stamp_if_needed for that (member, club, day) whose seconds, the
\* accumulator's value, have reached required_minutes * 60; a call with fewer
\* seconds changes neither.
C4_StampOnlyAtThreshold ==
    [][\A k \in DOMAIN stamps' \cup DOMAIN notices' :
          (Get(stamps', k) > Get(stamps, k) \/ Get(notices', k) > Get(notices, k))
          => \E c \in DOMAIN last_eval' :
                /\ StampKeyOf(c) = k
                /\ last_eval'[c].seconds >= RequiredSeconds(ClubOf(c))
                /\ last_eval'[c].seconds = Get(presence_accumulator', AccKey(c[1], c[2], c[3]))]_vars

\* a stamp is inserted by the call that reaches the threshold, after calls below it
C4_Witness ==
    \E c \in DOMAIN last_eval :
        /\ last_eval[c].result = "awarded"
        /\ last_eval[c].seconds = RequiredSeconds(ClubOf(c))
        /\ Get(stamps, StampKeyOf(c)) = 1

-----------------------------------------------------------------------------
(* The accumulator *)

\* the calls record_stamp_if_needed can be made with
Calls == {<<club_cache[n].club_id, m, d>> : n \in DOMAIN club_cache, m \in roster, d \in Days}

\* C14: once the stamp of a (member, club, day) is in the table, no step
\* increases the accumulator of that key and no iteration calls
\* record_stamp_if_needed for it again.
C14_FinalizedAfterAward ==
    [][\A c \in Calls :
          Get(stamps, StampKeyOf(c)) >= 1
          => /\ Get(presence_accumulator', AccKey(c[1], c[2], c[3]))
                  <= Get(presence_accumulator, AccKey(c[1], c[2], c[3]))
             /\ (~ticked /\ ticked') => c \notin DOMAIN last_eval']_vars

\* C16: an iteration at an instant before window_start (the monitor lead
\* included) or after window_end of a club's window of the day changes no
\* accumulator and no stamp of that club, whoever is in the channel; a join, a
\* leave or a move between channels changes neither.
C16_OutsideWindowUnchanged ==
    [][/\ (~ticked /\ ticked') =>
            \A n \in DOMAIN club_cache :
                LET club == club_cache[n]
                IN  (now < WindowRange(club, now)[1] \/ now > WindowRange(club, now)[2])
                    => /\ \A k \in DOMAIN presence_accumulator \cup DOMAIN presence_accumulator' :
                             k[1] = club.club_id
                             => Get(presence_accumulator', k) = Get(presence_accumulator, k)
                       /\ \A k \in DOMAIN stamps \cup DOMAIN stamps' :
                             k[2] = club.club_id => Get(stamps', k) = Get(stamps, k)
       /\ voice' # voice =>
            /\ presence_accumulator' = presence_accumulator
            /\ stamps' = stamps]_vars

\* an iteration has run in the monitor lead with the member in the channel, and
\* nothing was accumulated
C16_Witness ==
    /\ ticked
    /\ InMonitor(Morning, now)
    /\ now < WindowRange(Morning, now)[1]
    /\ voice["m1"] = Morning.voice_channel_id
    /\ presence_accumulator = EmptyDict
    /\ stamps = EmptyDict

\* C15: once an iteration has run on a day, presence_accumulator and
\* notified_keys hold entries of that day only: the first iteration of a new
\* day has discarded those of the day before.
C15_OnlyToday ==
    ticked =>
        /\ \A k \in DOMAIN presence_accumulator : k[3] = DateOf(now)
        /\ \A k \in notified_keys : k[2] = IsoFormat(DateOf(now))

\* C7: no step of a running process (an iteration, a join, a leave, time
\* passing) removes an entry of presence_accumulator or lowers its value.
C7_AccumulatorMonotonic ==
    [][Restart \/ \A k \in DOMAIN presence_accumulator :
                     Get(presence_accumulator', k) >= presence_accumulator[k]]_vars

\* the member has left, and an iteration inside the window has run without them
C7_Witness ==
    /\ voice["m1"] = NoChannel
    /\ ticked
    /\ InWindow(Morning, now)
    /\ DOMAIN last_eval = {}
    /\ Get(presence_accumulator, AccKey(Morning.club_id, "m1", DateOf(now))) = AddSeconds

\* the iterations that can have fallen into the club's window of day d so far
TicksSoFar(club, d) ==
    LET w     == WindowRange(club, d * DaySeconds)
        first == OnGrid(w[1])
    IN  Cardinality({i \in 0 .. (WindowSeconds(club) \div LoopSeconds) :
                       first + i * LoopSeconds <= Min(now, w[2])})

\* C8: the seconds record_stamp_if_needed is called with for a day are at most
\* AddSeconds for each iteration that fell into that day's window, whatever was
\* accumulated on earlier days, and a stamp of a day exists only if enough
\* iterations fell into that day's window.
C8_DaysIsolated ==
    /\ \A c \in DOMAIN last_eval :
          last_eval[c].seconds <= AddSeconds * TicksSoFar(ClubOf(c), c[3])
    /\ \A n \in DOMAIN club_cache, m \in roster, d \in Days :
          Get(stamps, StampKeyOf(<<club_cache[n].club_id, m, d>>)) > 0
          => AddSeconds * TicksSoFar(club_cache[n], d) >= RequiredSeconds(club_cache[n])

\* the first iteration of the second day that sees the member, who has
\* accumulated seconds on the first day
C8_Witness ==
    /\ DateOf(now) = FirstDay + 1
    /\ Get(presence_accumulator, AccKey(Morning.club_id, "m1", FirstDay)) >= AddSeconds
    /\ <<Morning.club_id, "m1", FirstDay + 1>> \in DOMAIN last_eval
    /\ last_eval[<<Morning.club_id, "m1", FirstDay + 1>>].seconds = AddSeconds

\* the (club name, member) pair of a call
PairOf(c) == <<ClubOf(c).name, c[2]>>

\* C6: an iteration that sees a member adds AddSeconds to what the earlier stays
\* of the day accumulated, and no other step changes the accumulator; while the
\* sum is below the required seconds there is no stamp, and the first call whose
\* sum reaches them inserts the one row (unless the store fails).
C6_SplitStaysSummed ==
    [][IF ~ticked /\ ticked'
       THEN \A c \in DOMAIN last_eval' :
              LET before   == Get(presence_accumulator, AccKey(c[1], c[2], c[3]))
                  required == RequiredSeconds(ClubOf(c))
              IN  /\ last_eval'[c].seconds = before + AddSeconds
                  /\ before < required => Get(stamps, StampKeyOf(c)) = 0
                  /\ last_eval'[c].seconds < required => Get(stamps', StampKeyOf(c)) = 0
                  /\ (/\ before < required
                      /\ last_eval'[c].seconds >= required
                      /\ last_eval'[c].result # "error")
                     => (Get(stamps', StampKeyOf(c)) = 1 /\ last_eval'[c].result \in Inserting)
       ELSE presence_accumulator' = presence_accumulator]_vars

\* the stamp is awarded at the second sighting of a member who was not in the
\* channel in between: the two sightings belong to two stays
C6_Witness ==
    \E c \in DOMAIN last_eval :
        /\ last_eval[c].result = "awarded"
        /\ last_eval[c].seconds = RequiredSeconds(ClubOf(c))
        /\ last_eval[c].seconds = 2 * AddSeconds
        /\ left[PairOf(c)]
        /\ actual[PairOf(c)] < LoopSeconds
        /\ ~irregular

\* C5: a member in the channel from the start of the monitor range on, without
\* leaving, has accumulated exactly the window's seconds after the last
\* iteration inside the window, when no iteration was skipped.
C5_ContinuousStayCountsWindow ==
    \A p \in DOMAIN actual :
        LET club == club_cache[p[1]]
        IN  (/\ ~irregular
             /\ ~left[p]
             /\ voice[p[2]] = club.voice_channel_id
             /\ ticked
             /\ InWindow(club, now)
             /\ now + LoopSeconds > WindowRange(club, now)[2])
            => Get(presence_accumulator, AccKey(club.club_id, p[2], DateOf(now)))
                 = WindowSeconds(club)

\* C9: the accumulated seconds of a (member, club, day) never exceed the time
\* the member really was in the channel inside the window of that day.
C9_NeverOverCounted ==
    \A p \in DOMAIN actual :
        Get(presence_accumulator, AccKey(club_cache[p[1]].club_id, p[2], DateOf(now)))
          <= actual[p]

=============================================================================
